---- MODULE Spec2Model ----
(***************************************************************************)
(* ClaudeForge: one `run` command of the CLI (cli.py) driving one session  *)
(* of ClaudeForgeOrchestrator.run_session (orchestrator.py), followed by   *)
(* the caller-owned cleanup.  External collaborators (GitHub REST API,     *)
(* git, the assistant subprocess, the Discord webhook, the file system)    *)
(* are nondeterministic: each call either succeeds or raises.              *)
(* Further specifications cover direct use of the NotificationManager      *)
(* (SpecApi), several sessions in sequence on one orchestrator (SpecSeq),  *)
(* the loading of the configuration by the CLI (SpecConfig), the `analyze` *)
(* command (SpecAnalyze) and direct calls of                               *)
(* ClaudeSession.create_instruction_prompt (SpecPrompt).                   *)
(***************************************************************************)
EXTENDS Integers, Sequences, FiniteSets, TLC

\* Python's None.
Null == "NULL"

\* An attribute the object does not have (AttributeError on lookup); an
\* attribute that exists is the one-element sequence of its value.
NoAttr == <<>>

\* ---------------------------------------------------------------- config.py

\* DevelopmentConfig.max_session_time default.
DefaultMaxSessionTime == 3600

\* The fields ClaudeConfig declares.
ClaudeConfigFields == {"api_key", "model", "max_tokens"}

\* A max_session_time a configuration file sets instead of the default.
FileMaxSessionTime == 1800

\* A `timeout` attribute a subclass of ClaudeConfig could carry.
SubclassTimeout == 60

\* Values of config.claude.timeout: ClaudeConfig itself declares no such
\* field, so on every Config built by load_from_file the lookup fails.
ClaudeTimeouts ==
    IF "timeout" \in ClaudeConfigFields
        THEN {<<DefaultMaxSessionTime>>}
        ELSE {NoAttr, <<SubclassTimeout>>}

\* The configurations the orchestrator is constructed with.
Configs ==
    [ claude_timeout   : ClaudeTimeouts,
      max_session_time : {DefaultMaxSessionTime, FileMaxSessionTime},
      auto_create_pr   : BOOLEAN,
      discord_enabled  : BOOLEAN,
      webhook_url      : {Null, "https://discord/webhook"},
      email_enabled    : BOOLEAN ]

\* ClaudeConfig.model default.
DefaultModel == "claude-3-sonnet-20240229"

\* A value of a configuration mapping: a scalar (a string, or Null for
\* None) or a dict (a function from its keys to values).
Leaf(v) == [kind |-> "leaf", val |-> v]

DictNode(items) == [kind |-> "dict", items |-> items]

\* The modelled keys: the two required credentials, a string field with a
\* default, an Optional field two levels down.
ConfigKeys == {"api_key", "model", "token", "webhook_url"}

\* The environment variable load_from_file reads for each key.
EnvVar ==
    [ api_key |-> "ANTHROPIC_API_KEY", model |-> "CLAUDE_MODEL",
      token |-> "GITHUB_TOKEN", webhook_url |-> "DISCORD_WEBHOOK_URL" ]

\* The value a configuration file gives a key, and the value the
\* environment gives its variable, when they supply it.
FileValue ==
    [ api_key |-> "file-claude-key", model |-> "claude-3-opus-20240229",
      token |-> "file-github-token", webhook_url |-> "https://file/webhook" ]

EnvValue ==
    [ ANTHROPIC_API_KEY |-> "env-claude-key", CLAUDE_MODEL |-> "env-model",
      GITHUB_TOKEN |-> "env-github-token",
      DISCORD_WEBHOOK_URL |-> "https://env/webhook" ]

\* Environments: each variable is unset (os.getenv gives None), set to the
\* empty string, or set to a value.
Envs ==
    [ ANTHROPIC_API_KEY : {Null, "", EnvValue.ANTHROPIC_API_KEY},
      CLAUDE_MODEL : {Null, "", EnvValue.CLAUDE_MODEL},
      GITHUB_TOKEN : {Null, "", EnvValue.GITHUB_TOKEN},
      DISCORD_WEBHOOK_URL : {Null, "", EnvValue.DISCORD_WEBHOOK_URL} ]

\* yaml.safe_load of a file holding the given sections, the claude section
\* holding the given keys.
FileData(sections, claude_keys) ==
    DictNode(
      [ s \in sections |->
          IF s = "claude"
            THEN DictNode([k \in claude_keys |-> Leaf(FileValue[k])])
          ELSE IF s = "github"
            THEN DictNode([k \in {"token"} |-> Leaf(FileValue[k])])
          ELSE DictNode(
                 [ d \in {"discord"} |->
                     DictNode([k \in {"webhook_url"} |-> Leaf(FileValue[k])]) ]) ])

\* The --config argument: no file (or a path that does not exist), an empty
\* file (yaml.safe_load gives None), or a file with any of the sections.
Files ==
    { [exists |-> FALSE, data |-> Leaf(Null)],
      [exists |-> TRUE, data |-> Leaf(Null)] }
    \cup
    { [exists |-> TRUE, data |-> FileData(sections, claude_keys)] :
        sections \in SUBSET {"claude", "github", "notifications"},
        claude_keys \in SUBSET {"api_key", "model"} }

\* load_from_file, lines 76-97: env_overrides.  The variables not modelled
\* are unset.
env_overrides(env) ==
    [ claude |->
        DictNode([ api_key |-> Leaf(env.ANTHROPIC_API_KEY),
                   model |-> Leaf(env.CLAUDE_MODEL) ]),
      github |-> DictNode([token |-> Leaf(env.GITHUB_TOKEN)]),
      notifications |->
        DictNode(
          [ discord |->
              DictNode([ webhook_url |-> Leaf(env.DISCORD_WEBHOOK_URL),
                         bot_token |-> Leaf(Null),
                         channel_id |-> Leaf(Null) ]),
            email |->
              DictNode([ smtp_server |-> Leaf(Null), username |-> Leaf(Null),
                         password |-> Leaf(Null), to_email |-> Leaf(Null) ]) ]) ]

\* merge_dict: `if value is not None` (mutant: None overrides as well).
OverrideAppliesAlways(value) == TRUE

\* merge_dict: `if value is not None`.
OverrideApplies(value) == ~(value.kind = "leaf" /\ value.val = Null)

\* merge_dict(base, override) on the items of two dicts: an override that
\* applies is merged into base[key] if it is a dict and base holds the key,
\* and replaces (or creates) base[key] as it is otherwise.
RECURSIVE merge_dict(_, _)
merge_dict(base, override) ==
    LET applied == {k \in DOMAIN override : OverrideApplies(override[k])}
    IN  [ k \in DOMAIN base \cup applied |->
            IF k \notin applied
              THEN base[k]
            ELSE IF override[k].kind = "dict" /\ k \in DOMAIN base
              THEN DictNode(merge_dict(base[k].items, override[k].items))
            ELSE override[k] ]

\* The value given for a field of a section: <<>> when the key is not
\* passed, otherwise the value passed (possibly None).
Passed(items, key) ==
    IF key \in DOMAIN items THEN <<items[key].val>> ELSE <<>>

\* The items of the dict under key (none when the key is not passed).
Section(items, key) ==
    IF key \in DOMAIN items THEN items[key].items ELSE <<>>

\* A required `str` field (mutant: None is accepted).
RequiredOkLenient(p) == p # <<>>

\* A required `str` field: it must be passed and must not be None.
RequiredOk(p) == p # <<>> /\ p[1] # Null

\* A `str` field with a default: None is not a valid str.
DefaultedOk(p) == p = <<>> \/ p[1] # Null

\* cls(**config_data): pydantic validation of the merged mapping against
\* ClaudeConfig, GitHubConfig and DiscordConfig; the Config on success.
Validate(items) ==
    LET api_key == Passed(Section(items, "claude"), "api_key")
        model == Passed(Section(items, "claude"), "model")
        token == Passed(Section(items, "github"), "token")
        webhook == Passed(Section(Section(items, "notifications"), "discord"),
                          "webhook_url")
    IN  IF /\ "claude" \in DOMAIN items
           /\ "github" \in DOMAIN items
           /\ RequiredOk(api_key)
           /\ RequiredOk(token)
           /\ DefaultedOk(model)
          THEN [ error |-> Null,
                 settings |->
                   << [ api_key |-> api_key[1],
                        model |-> IF model = <<>> THEN DefaultModel ELSE model[1],
                        token |-> token[1],
                        webhook_url |->
                            IF webhook = <<>> THEN Null ELSE webhook[1] ] >> ]
          ELSE [error |-> "ValidationError", settings |-> <<>>]

\* Config.load_from_file: the error it raises (Null when it returns) and the
\* Config it returns.  On an empty file config_data is None and merge_dict
\* fails on `key in base`.
load_from_file(file, env) ==
    LET config_data == IF file.exists THEN file.data ELSE DictNode(<<>>)
    IN  IF config_data.kind # "dict"
          THEN [ error |-> "TypeError: argument of type 'NoneType' is not iterable",
                 settings |-> <<>> ]
          ELSE Validate(merge_dict(config_data.items, env_overrides(env)))

\* --------------------------------------------------------- github_client.py

\* Issue URLs, given as urlparse(url).path.strip('/').split('/').
IssueUrls ==
    { <<"octo", "repo", "issues", "42">>,
      <<"octo", "repo", "pull", "42">>,
      <<"octo", "repo", "issues", "abc">> }

\* Strings int() accepts, with their values.
IsIntString(s) == s \in {"42", "7"}

IntValue(s) == IF s = "42" THEN 42 ELSE 7

\* parse_issue_url: the exception it raises (Null when it returns).
ParseError(path_parts) ==
    IF Len(path_parts) < 4 \/ path_parts[3] # "issues"
        THEN "ValueError: Invalid GitHub issue URL"
    ELSE IF ~IsIntString(path_parts[4])
        THEN "ValueError: invalid literal for int()"
    ELSE Null

\* parse_issue_url: the (owner, repo, issue_number) it returns.
parse_issue_url(path_parts) ==
    [ owner |-> path_parts[1],
      repo |-> path_parts[2],
      issue_number |-> IntValue(path_parts[4]) ]

\* response.raise_for_status() in add_comment_to_issue (mutant: swallowed).
CommentRaisesHardened(outcome) == FALSE

\* response.raise_for_status() in add_comment_to_issue.
CommentRaises(outcome) == outcome = "http_error"

\* -------------------------------------------------------- claude_session.py

\* create_instruction_prompt: "\n".join(prompt_parts) raises TypeError when
\* an element is not a str; the only element that is not an f-string is
\* issue_data.get('body', ...), which is None when the key holds null.
PromptError(issue_body) ==
    IF issue_body = Null
        THEN "TypeError: sequence item: expected str instance, NoneType found"
        ELSE Null

\* An optional dict argument: <<>> is None, <<d>> the dict d (a function
\* from its keys to strings or Null).
NoContext == <<>>

\* `if issue_data:` / `if repo_data:`: None and the empty dict are falsy.
ContextGiven(data) == data # NoContext /\ DOMAIN data[1] # {}

\* dict.get(key, default): the default only replaces a missing key.
Get(d, key, default) == IF key \in DOMAIN d THEN d[key] ELSE default

\* An f-string field: None is formatted as "None".
Fmt(v) == IF v = Null THEN "None" ELSE v

\* Lines 26-31: the preamble with the instruction.
Preamble(instruction) ==
    << <<"You are an autonomous software development assistant working on a GitHub repository.">>,
       <<"">>,
       <<"Primary Instruction: ", instruction>>,
       <<"">> >>

\* Lines 34-43: the issue block.  The body is the only element that is not
\* formatted.
IssueBlock(d) ==
    << <<"GitHub Issue Context:">>,
       <<"Title: ", Fmt(Get(d, "title", "N/A"))>>,
       <<"Number: #", Fmt(Get(d, "number", "N/A"))>>,
       <<"State: ", Fmt(Get(d, "state", "N/A"))>>,
       <<"">>,
       <<"Issue Description:">>,
       <<Get(d, "body", "No description provided.")>>,
       <<"">> >>

\* Lines 46-53: the repository block.
RepoBlock(d) ==
    << <<"Repository Context:">>,
       <<"Name: ", Fmt(Get(d, "full_name", "N/A"))>>,
       <<"Description: ", Fmt(Get(d, "description", "N/A"))>>,
       <<"Language: ", Fmt(Get(d, "language", "N/A"))>>,
       <<"Default Branch: ", Fmt(Get(d, "default_branch", "main"))>>,
       <<"">> >>

\* Lines 55-65: the task list.
TaskBlock ==
    << <<"Your Task:">>,
       <<"1. Analyze the codebase and understand the current implementation">>,
       <<"2. Implement the requested changes or fixes">>,
       <<"3. Ensure code quality and follow existing patterns">>,
       <<"4. Write or update tests as appropriate">>,
       <<"5. Make sure the changes work correctly">>,
       <<"">>,
       <<"Work autonomously and systematically. Create a plan and execute it step by step.">>,
       <<"Focus on delivering a complete, working solution.">> >>

\* `if repo_data:` (mutant: the repository block is nested in the issue
\* block's condition).
RepoBlockShownNested(issue_data, repo_data) ==
    ContextGiven(issue_data) /\ ContextGiven(repo_data)

\* `if repo_data:`, line 45: the repository block does not depend on the
\* issue.
RepoBlockShown(issue_data, repo_data) == ContextGiven(repo_data)

\* create_instruction_prompt: the parts joined by "\n" (text) and the
\* exception the join raises (error, Null when it returns).
create_instruction_prompt(instruction, issue_data, repo_data) ==
    LET issue == IF ContextGiven(issue_data)
                   THEN IssueBlock(issue_data[1]) ELSE <<>>
        repo == IF RepoBlockShown(issue_data, repo_data)
                  THEN RepoBlock(repo_data[1]) ELSE <<>>
        err == IF ContextGiven(issue_data)
                 THEN PromptError(Get(issue_data[1], "body", "No description provided."))
                 ELSE Null
    IN  [ error |-> err,
          text |-> IF err = Null
                     THEN Preamble(instruction) \o issue \o repo \o TaskBlock
                     ELSE <<>> ]

\* run_claude_code_session (mutant: a timeout is turned into a failed run).
RunSubprocessSwallowTimeout(outcome) ==
    CASE outcome = "timeout" -> [raised |-> Null, returncode |-> 1]
      [] outcome = "oserror" -> [raised |-> "FileNotFoundError: claude-code", returncode |-> 0]
      [] outcome = "exit0" -> [raised |-> Null, returncode |-> 0]
      [] outcome = "exit1" -> [raised |-> Null, returncode |-> 1]
      [] OTHER -> [raised |-> Null, returncode |-> 2]

\* run_claude_code_session: subprocess.run returns a CompletedProcess, or
\* TimeoutExpired / another exception is logged and re-raised.
RunSubprocess(outcome) ==
    CASE outcome = "timeout" -> [raised |-> "TimeoutExpired: timed out", returncode |-> 0]
      [] outcome = "oserror" -> [raised |-> "FileNotFoundError: claude-code", returncode |-> 0]
      [] outcome = "exit0" -> [raised |-> Null, returncode |-> 0]
      [] outcome = "exit1" -> [raised |-> Null, returncode |-> 1]
      [] OTHER -> [raised |-> Null, returncode |-> 2]

\* What the assistant subprocess can do.
AssistantOutcomes == {"exit0", "exit1", "exit2", "timeout", "oserror"}

\* analyze_session_output: success (mutant: always successful).
AnalysisSuccessAlways(returncode) == TRUE

\* analyze_session_output: success iff the return code is zero.
AnalysisSuccess(returncode) == returncode = 0

\* analyze_session_output: the errors list (mutant: stderr is not recorded).
AnalysisErrorsNone(returncode, stderr) == <<>>

\* analyze_session_output: the errors list, [] with result.stderr appended
\* when the return code is not zero.
AnalysisErrors(returncode, stderr) ==
    IF returncode = 0 THEN <<>> ELSE <<stderr>>

\* analyze_session_output.
analyze_session_output(returncode, stderr) ==
    [ success |-> AnalysisSuccess(returncode),
      return_code |-> returncode,
      summary |-> IF returncode = 0
                    THEN <<"Claude Code session completed successfully">>
                    ELSE <<"Claude Code session failed with return code", returncode>>,
      errors |-> AnalysisErrors(returncode, stderr) ]

\* --------------------------------------------------------- notifications.py

\* Outcomes of the webhook POST.
Deliveries == {"ok", "fail"}

\* send_webhook_message (mutant: the POST is not wrapped in try/except).
send_webhook_message_unwrapped(webhook_url, d) ==
    IF webhook_url = Null
        THEN [ret |-> FALSE, posted |-> FALSE, raised |-> FALSE]
    ELSE IF d = "ok"
        THEN [ret |-> TRUE, posted |-> TRUE, raised |-> FALSE]
    ELSE [ret |-> FALSE, posted |-> TRUE, raised |-> TRUE]

\* send_webhook_message: False without a webhook URL; otherwise POST, and
\* any exception is caught, logged and turned into False.
send_webhook_message(webhook_url, d) ==
    IF webhook_url = Null
        THEN [ret |-> FALSE, posted |-> FALSE, raised |-> FALSE]
    ELSE IF d = "ok"
        THEN [ret |-> TRUE, posted |-> TRUE, raised |-> FALSE]
    ELSE [ret |-> FALSE, posted |-> TRUE, raised |-> FALSE]

\* The exception an unwrapped webhook POST would raise.
WebhookError == "HTTPStatusError: webhook"

\* A key the details dict does not hold.
Absent == "ABSENT"

\* A details dict, by the kinds of its values: summary is Absent, "str" or
\* Null; changes and errors are Absent, "empty" (an empty list), "strs" (a
\* list of strings) or "ints" (a list holding a non-string); pr_url is
\* Absent, Null or "url".
Details(summary, changes, pr_url, errors) ==
    [summary |-> summary, changes |-> changes, pr_url |-> pr_url, errors |-> errors]

\* create_session_embed: the exception it raises (Null when it returns).
\* "\n".join(details["changes"][:5]) needs strings; nothing else can fail.
EmbedError(details) ==
    IF details.changes = "ints"
        THEN "TypeError: embed: sequence item: expected str instance"
        ELSE Null

\* create_session_email: the exception it raises (Null when it returns).
\* details["summary"] is joined as it is; changes, pr_url and errors go
\* through f-strings.
EmailError(details) ==
    IF details.summary \notin {Absent, "str"}
        THEN "TypeError: email: sequence item: expected str instance"
        ELSE Null

\* NotificationManager.__init__: a notifier object exists for a channel
\* only if the channel is enabled (mutant: the notifier is always built).
ChannelActiveAlways(enabled) == TRUE

\* NotificationManager.__init__: a notifier object exists for a channel
\* only if the channel is enabled; `if self.discord:` / `if self.email:`
\* test that object.
ChannelActive(enabled) == enabled

\* notify_session_status: what one call does on each channel, and the
\* exception that leaves it (exc, Null when it returns).  The renderers are
\* called outside any try block.  The email channel only renders the
\* message: the send_email call is commented out.
notify_session_status(c, status, details, d) ==
    LET discord_on == ChannelActive(c.discord_enabled)
        email_on == ChannelActive(c.email_enabled)
        none == [ret |-> FALSE, posted |-> FALSE, raised |-> FALSE]
        embedExc == IF discord_on THEN EmbedError(details) ELSE Null
        hook == IF discord_on /\ embedExc = Null
                    THEN send_webhook_message(c.webhook_url, d)
                    ELSE none
        discordExc == IF embedExc # Null THEN embedExc
                      ELSE IF hook.raised THEN WebhookError
                      ELSE Null
        emailExc == IF discordExc = Null /\ email_on
                        THEN EmailError(details)
                        ELSE Null
    IN  [ status |-> status,
          details |-> details,
          discord |-> IF ~discord_on THEN "disabled"
                      ELSE IF embedExc # Null THEN "render_failed"
                      ELSE IF ~hook.posted THEN "no_webhook_url"
                      ELSE IF hook.ret THEN "sent"
                      ELSE "failed",
          email |-> IF discordExc # Null THEN "not_reached"
                    ELSE IF ~email_on THEN "disabled"
                    ELSE IF emailExc # Null THEN "render_failed"
                    ELSE "rendered",
          smtp_sends |-> 0,
          exc |-> IF discordExc # Null THEN discordExc ELSE emailExc ]

\* ---------------------------------------------------------- orchestrator.py

\* dict.update.
Update(r, u) ==
    [k \in DOMAIN r \cup DOMAIN u |-> IF k \in DOMAIN u THEN u[k] ELSE r[k]]

\* The generated branch name.
GeneratedBranch(issue_number, ts) == <<"claudeforge-issue", issue_number, ts>>

\* `if not branch_name: branch_name = f"claudeforge-issue-..."` (mutant: the
\* caller's name is ignored).
ChooseBranchGenerated(branch_name, issue_number, ts) ==
    GeneratedBranch(issue_number, ts)

\* `if not branch_name: branch_name = f"claudeforge-issue-..."`: the caller's
\* name unless it is None or empty.
ChooseBranch(branch_name, issue_number, ts) ==
    IF branch_name \in {Null, ""}
        THEN GeneratedBranch(issue_number, ts)
        ELSE <<branch_name>>

\* repo_path = clone_dir / f"{repo}-{int(session_start.timestamp())}"
RepoPath(repo, ts) == <<repo, ts>>

\* `if create_pr and self.config.development.auto_create_pr` (mutant: or).
ShouldCreatePREither(create_pr, auto_create_pr) == create_pr \/ auto_create_pr

\* `if create_pr and self.config.development.auto_create_pr`.
ShouldCreatePR(create_pr, auto_create_pr) == create_pr /\ auto_create_pr

\* `if git_repo.is_dirty() or git_repo.untracked_files` (mutant: untracked
\* files are not looked at).
HasChangesDirtyOnly(is_dirty, untracked) == is_dirty

\* `if git_repo.is_dirty() or git_repo.untracked_files` (mutant: the check
\* is dropped and the commit chain always runs).
HasChangesAlways(is_dirty, untracked) == TRUE

\* `if git_repo.is_dirty() or git_repo.untracked_files`.
HasChanges(is_dirty, untracked) == is_dirty \/ untracked

\* The time budget handed to run_claude_code_session:
\* self.config.claude.timeout.
AssistantBudget(c) == c.claude_timeout

\* The status of the notification in the `except Exception` handler
\* (mutant: "failed").
HandlerStatusFailed == "failed"

\* The status of the notification in the `except Exception` handler.
HandlerStatus == "error"

\* cleanup: `if self.current_repo_path and self.current_repo_path.exists()`
\* (mutant: the tree is never removed).
ShouldRemoveNever(path, exists) == FALSE

\* cleanup: `if self.current_repo_path and self.current_repo_path.exists()`.
ShouldRemove(path, exists) == path # <<>> /\ exists

VARIABLES
    cfg,        \* the Config the orchestrator was constructed with
    args,       \* the arguments of the run command
    pc,         \* position in run_session / run
    sess,       \* locals of run_session
    current_repo_path,  \* orchestrator.current_repo_path (<<>> is None)
    tree,       \* the working tree on disk: exists, is_dirty(), untracked_files
    result,     \* the result dict of run_session
    notifs,     \* the notify_session_status calls made, in order
    calls,      \* the external main-line calls made, in order
    raised,     \* message of the exception caught by run_session's handler
    escaped,    \* exception that left run_session
    cli,        \* exit code of the run command; what cleanup() did
    hist,       \* the orchestrator over its run_session calls: their number,
                \* the working-tree paths assigned, the trees on disk that
                \* current_repo_path no longer names
    conf,       \* Config.load_from_file: the file, the environment and the
                \* outcome (<<>> where the Config was constructed directly)
    direct      \* direct calls of create_instruction_prompt: the arguments
                \* and the values returned (<<>> where there are none)

vars == <<cfg, args, pc, sess, current_repo_path, tree, result, notifs, calls,
          raised, escaped, cli, hist, conf, direct>>

\* The instruction text of the run command.
Instruction == "fix the bug"

\* The arguments of the run command (draft_pr is only handed on to
\* create_pull_request).
RunArgs ==
    [ issue_url : IssueUrls,
      branch_name : {Null, "feature-x"},
      create_pr : BOOLEAN,
      draft_pr : {FALSE},
      session_start : {1} ]

\* The locals of run_session on entry: nothing parsed, fetched, chosen or
\* run yet.
FreshLocals ==
    [ owner |-> Null, repo |-> Null, issue_number |-> 0,
      issue_body |-> "unfetched", branch_name |-> <<>>,
      assistant |-> "not_run", budget |-> 0, returncode |-> 0,
      left_modified |-> FALSE, left_untracked |-> FALSE,
      pr_url |-> Null, used |-> {} ]

Init ==
    /\ cfg \in Configs
    /\ args \in RunArgs
    /\ pc = "parse"
    /\ sess = FreshLocals
    /\ current_repo_path = <<>>
    /\ tree = [exists |-> FALSE, is_dirty |-> FALSE, untracked |-> FALSE]
    /\ result = [ success |-> FALSE, issue_url |-> args.issue_url,
                  start_time |-> args.session_start,
                  instruction |-> Instruction ]
    /\ notifs = <<>>
    /\ calls = <<>>
    /\ raised = Null
    /\ escaped = Null
    /\ cli = [ exit_code |-> 0, cleanup_ran |-> FALSE, rmtree |-> "not_tried",
               close |-> "not_called", cleanup_exc |-> Null ]
    /\ hist = [runs |-> 1, assigned |-> <<>>, orphans |-> {}]
    /\ conf = <<>>
    /\ direct = <<>>

\* An external call made by run_session, and whether it returned (ok) or
\* raised.
Call(op, ok) == [op |-> op, ok |-> ok]

\* The handler's result.update (mutant: the error string is not recorded).
HandlerUpdateNoError(msg) == [end_time |-> "set"]

\* The handler's result.update({"error": str(e), "end_time": ...}), lines
\* 229-232.
HandlerUpdate(msg) == [error |-> msg, end_time |-> "set"]

\* The `except Exception` handler of run_session (lines 226-239) for an
\* exception with message msg; res is the result dict and base the
\* notification log at the raise, d the delivery outcome of the handler's
\* notification.  An exception raised inside the handler leaves run_session.
Handler(res, base, msg, d) ==
    LET n == notify_session_status(cfg, HandlerStatus,
                                   Details("str", Absent, Absent, "strs"), d)
    IN  /\ raised' = msg
        /\ result' = Update(res, HandlerUpdate(msg))
        /\ notifs' = Append(base, n)
        /\ IF n.exc # Null
             THEN /\ escaped' = n.exc
                  /\ pc' = "escaped"
             ELSE /\ escaped' = escaped
                  /\ pc' = "returned"

\* A main-line step raised msg: the handler runs.
Raise(msg) == \E d \in Deliveries : Handler(result, notifs, msg, d)

\* A notify_session_status(status, issue_url, details) call inside the try
\* block with the result dict res, continuing at nextpc; should the call
\* raise, the handler runs.
NotifyInTry(res, status, details, nextpc) ==
    \E d \in Deliveries :
        LET n == notify_session_status(cfg, status, details, d)
        IN  IF n.exc # Null
              THEN \E d2 \in Deliveries :
                     Handler(res, Append(notifs, n), n.exc, d2)
              ELSE /\ notifs' = Append(notifs, n)
                   /\ result' = res
                   /\ pc' = nextpc
                   /\ UNCHANGED <<raised, escaped>>

\* run_session, line 50: parse the issue URL.
ParseIssueUrl ==
    /\ pc = "parse"
    /\ IF ParseError(args.issue_url) = Null
         THEN /\ sess' = Update(sess, parse_issue_url(args.issue_url))
              /\ pc' = "get_issue"
              /\ UNCHANGED <<result, notifs, raised, escaped>>
         ELSE /\ Raise(ParseError(args.issue_url))
              /\ UNCHANGED sess
    /\ UNCHANGED <<cfg, args, hist, conf, direct, current_repo_path, tree, calls, cli>>

\* response.raise_for_status() in get_issue and get_repository (mutant: an
\* error status is ignored).
FetchRaisesNever(status_ok) == FALSE

\* response.raise_for_status() in get_issue and get_repository: an error
\* status (or a transport error) raises.
FetchRaises(status_ok) == ~status_ok

\* run_session, line 51: get_issue (GET, raise_for_status).  The body of an
\* issue without description is null.
GetIssue ==
    /\ pc = "get_issue"
    /\ \E status_ok \in BOOLEAN, body \in {Null, "text"} :
         /\ calls' = Append(calls, Call("get_issue", status_ok))
         /\ IF FetchRaises(status_ok)
              THEN /\ body = Null
                   /\ Raise("HTTPStatusError: get_issue")
                   /\ UNCHANGED sess
              ELSE /\ sess' = [sess EXCEPT !.issue_body = body]
                   /\ pc' = "get_repository"
                   /\ UNCHANGED <<result, notifs, raised, escaped>>
    /\ UNCHANGED <<cfg, args, hist, conf, direct, current_repo_path, tree, cli>>

\* run_session, line 52: get_repository (GET, raise_for_status).
GetRepository ==
    /\ pc = "get_repository"
    /\ \E status_ok \in BOOLEAN :
         /\ calls' = Append(calls, Call("get_repository", status_ok))
         /\ IF FetchRaises(status_ok)
              THEN Raise("HTTPStatusError: get_repository")
              ELSE /\ pc' = "setup"
                   /\ UNCHANGED <<result, notifs, raised, escaped>>
    /\ UNCHANGED <<cfg, args, hist, conf, direct, sess, current_repo_path, tree, cli>>

\* run_session, lines 54-64: choose the branch name, create the clone
\* directory, record the working-tree path.  Overwriting
\* current_repo_path drops the orchestrator's only reference to the tree of
\* an earlier session; equal paths name the same directory.
SetupRepo ==
    /\ pc = "setup"
    /\ sess' = [sess EXCEPT !.branch_name =
                 ChooseBranch(args.branch_name, sess.issue_number,
                              args.session_start)]
    /\ \/ LET path == RepoPath(sess.repo, args.session_start)
              dropped == IF /\ current_repo_path # <<>>
                            /\ current_repo_path # path
                            /\ tree.exists
                           THEN {current_repo_path}
                           ELSE {}
          IN  /\ calls' = Append(calls, Call("mkdir", TRUE))
              /\ current_repo_path' = path
              /\ tree' = IF path = current_repo_path
                           THEN tree
                           ELSE [ exists |-> path \in hist.orphans,
                                  is_dirty |-> FALSE, untracked |-> FALSE ]
              /\ hist' = [hist EXCEPT
                            !.assigned = Append(@, path),
                            !.orphans = (@ \ {path}) \cup dropped]
              /\ pc' = "clone"
              /\ UNCHANGED <<result, notifs, raised, escaped>>
       \/ /\ calls' = Append(calls, Call("mkdir", FALSE))
          /\ Raise("OSError: mkdir")
          /\ UNCHANGED <<current_repo_path, tree, hist>>
    /\ UNCHANGED <<cfg, args, conf, direct, cli>>

\* clone_repository, lines 68-72: the checkout of the default branch
\* (mutant: its failure leaves clone_repository).
CheckoutFailureAbortsStrict(checkout_ok) == ~checkout_ok

\* clone_repository, lines 68-72: the checkout of the default branch runs
\* in try/except; a failure is logged and the Repo is returned.
CheckoutFailureAborts(checkout_ok) == FALSE

\* run_session, lines 67-71: clone_repository.  Repo.clone_from raises if
\* the destination already holds a tree, and may raise otherwise (leaving a
\* partial directory or none); a failed checkout of the default branch is
\* only logged.
CloneRepository ==
    /\ pc = "clone"
    /\ \/ /\ ~tree.exists
          /\ \E checkout_ok \in BOOLEAN :
               /\ calls' = calls \o <<Call("clone", TRUE),
                                      Call("checkout_default", checkout_ok)>>
               /\ tree' = [tree EXCEPT !.exists = TRUE]
               /\ IF CheckoutFailureAborts(checkout_ok)
                    THEN Raise("GitCommandError: checkout")
                    ELSE /\ pc' = "create_branch"
                         /\ UNCHANGED <<result, notifs, raised, escaped>>
       \/ \E partial \in BOOLEAN :
            /\ calls' = Append(calls, Call("clone", FALSE))
            /\ tree' = [tree EXCEPT !.exists = tree.exists \/ partial]
            /\ Raise("GitCommandError: clone")
    /\ UNCHANGED <<cfg, args, hist, conf, direct, sess, current_repo_path, cli>>

\* The locals after branch_name was handed on for the purpose `use`.
UseBranch(use) ==
    [sess EXCEPT !.used = @ \cup {<<use, sess.branch_name>>}]

\* run_session, lines 74-78: create_branch (checkout base, checkout -b).
CreateBranch ==
    /\ pc = "create_branch"
    /\ \/ /\ calls' = Append(calls, Call("create_branch", TRUE))
          /\ pc' = "build_prompt"
          /\ UNCHANGED <<result, notifs, raised, escaped>>
       \/ /\ calls' = Append(calls, Call("create_branch", FALSE))
          /\ Raise("GitCommandError: checkout")
    /\ sess' = UseBranch("create_branch")
    /\ UNCHANGED <<cfg, args, hist, conf, direct, current_repo_path, tree, cli>>

\* run_session, lines 81-83: create_instruction_prompt.
BuildPrompt ==
    /\ pc = "build_prompt"
    /\ IF PromptError(sess.issue_body) = Null
         THEN /\ pc' = "notify_started"
              /\ UNCHANGED <<result, notifs, raised, escaped>>
         ELSE Raise(PromptError(sess.issue_body))
    /\ UNCHANGED <<cfg, args, hist, conf, direct, sess, current_repo_path, tree, calls, cli>>

\* The status of the notification before the assistant run (mutant: it is
\* sent as "error").
StartedStatusError == "error"

\* The status of the notification before the assistant run, line 87.
StartedStatus == "started"

\* run_session, lines 86-95: the "started" notification.
NotifyStarted ==
    /\ pc = "notify_started"
    /\ NotifyInTry(result, StartedStatus, Details("str", Absent, Absent, Absent),
                   "run_assistant")
    /\ sess' = UseBranch("notify_started")
    /\ UNCHANGED <<cfg, args, hist, conf, direct, current_repo_path, tree, calls, cli>>

\* run_session, lines 99-103: run_claude_code_session(repo_path,
\* full_instruction, self.config.claude.timeout).  The argument is evaluated
\* first: without the attribute no subprocess is started.  The assistant may
\* modify the working tree whatever its outcome.
RunAssistant ==
    /\ pc = "run_assistant"
    /\ IF AssistantBudget(cfg) = NoAttr
         THEN /\ Raise("AttributeError: 'ClaudeConfig' object has no attribute 'timeout'")
              /\ UNCHANGED <<sess, tree, calls>>
         ELSE \E o \in AssistantOutcomes, dirty \in BOOLEAN, untracked \in BOOLEAN :
                LET r == RunSubprocess(o)
                IN  /\ sess' = [sess EXCEPT !.assistant = o,
                                            !.budget = AssistantBudget(cfg)[1],
                                            !.returncode = r.returncode,
                                            !.left_modified = dirty,
                                            !.left_untracked = untracked]
                    /\ tree' = [tree EXCEPT !.is_dirty = dirty,
                                            !.untracked = untracked]
                    /\ calls' = Append(calls, Call("run_assistant", r.raised = Null))
                    /\ IF r.raised = Null
                         THEN /\ pc' = "analyze"
                              /\ UNCHANGED <<result, notifs, raised, escaped>>
                         ELSE Raise(r.raised)
    /\ UNCHANGED <<cfg, args, hist, conf, direct, current_repo_path, cli>>

\* run_session, lines 106-122: analyze_session_output; on failure record
\* the error, send "failed" and return the result.
AnalyzeSession ==
    /\ pc = "analyze"
    /\ LET a == analyze_session_output(sess.returncode, "stderr")
       IN  IF ~a.success
             THEN NotifyInTry(Update(result, [error |-> "Claude Code session failed",
                                              details |-> a]),
                              "failed", Details("str", Absent, Absent, "strs"),
                              "returned")
             ELSE /\ pc' = "check_changes"
                  /\ UNCHANGED <<result, notifs, raised, escaped>>
    /\ UNCHANGED <<cfg, args, hist, conf, direct, sess, current_repo_path, tree, calls, cli>>

\* run_session, lines 125 and 203-224: the change check; without changes
\* the result is marked successful, "completed" is sent and the session ends.
CheckChanges ==
    /\ pc = "check_changes"
    /\ IF HasChanges(tree.is_dirty, tree.untracked)
         THEN /\ pc' = "git_add"
              /\ UNCHANGED <<result, notifs, raised, escaped>>
         ELSE NotifyInTry(Update(result,
                                 [success |-> TRUE, changes_committed |-> FALSE,
                                  message |-> "No changes were made to the repository",
                                  end_time |-> "set"]),
                          "completed", Details("str", Absent, Absent, Absent),
                          "returned")
    /\ UNCHANGED <<cfg, args, hist, conf, direct, sess, current_repo_path, tree, calls, cli>>

\* A git or REST step of the commit/push/PR chain that either succeeds and
\* continues at nextpc or raises msg.
ChainStep(op, msg, nextpc) ==
    /\ \/ /\ calls' = Append(calls, Call(op, TRUE))
          /\ pc' = nextpc
          /\ UNCHANGED <<result, notifs, raised, escaped>>
       \/ /\ calls' = Append(calls, Call(op, FALSE))
          /\ Raise(msg)
    /\ UNCHANGED <<cfg, args, hist, conf, direct, current_repo_path, cli>>

\* run_session, line 129: git add .
GitAdd ==
    /\ pc = "git_add"
    /\ ChainStep("git_add", "GitCommandError: add", "commit")
    /\ UNCHANGED <<sess, tree>>

\* run_session, lines 132-133: commit.
Commit ==
    /\ pc = "commit"
    /\ ChainStep("commit", "GitCommandError: commit", "push")
    /\ tree' = IF pc' = "push"
                 THEN [tree EXCEPT !.is_dirty = FALSE, !.untracked = FALSE]
                 ELSE tree
    /\ UNCHANGED sess

\* run_session, lines 136-140: push_changes, then the decision whether a
\* pull request is opened.
Push ==
    /\ pc = "push"
    /\ ChainStep("push", "GitCommandError: push",
                 IF ShouldCreatePR(args.create_pr, cfg.auto_create_pr)
                   THEN "create_pr" ELSE "success")
    /\ sess' = UseBranch("push")
    /\ UNCHANGED tree

\* run_session, lines 161-172: create_pull_request (POST, raise_for_status).
CreatePullRequest ==
    /\ pc = "create_pr"
    /\ ChainStep("create_pull_request", "HTTPStatusError: create_pull_request",
                 "add_comment")
    /\ sess' = IF pc' = "add_comment"
                 THEN [UseBranch("pr_head") EXCEPT
                          !.pr_url = "https://github/pull/1"]
                 ELSE UseBranch("pr_head")
    /\ UNCHANGED tree

\* run_session, lines 175-180: add_comment_to_issue (POST, raise_for_status).
AddComment ==
    /\ pc = "add_comment"
    /\ \E o \in {"ok", "http_error"} :
         /\ calls' = Append(calls, Call("add_comment_to_issue", o = "ok"))
         /\ IF CommentRaises(o)
              THEN Raise("HTTPStatusError: add_comment_to_issue")
              ELSE /\ pc' = "success"
                   /\ UNCHANGED <<result, notifs, raised, escaped>>
    /\ UNCHANGED <<cfg, args, hist, conf, direct, sess, current_repo_path, tree, cli>>

\* run_session, lines 182-224: the result is marked successful, "success"
\* is sent and the session ends.
Succeed ==
    /\ pc = "success"
    /\ NotifyInTry(Update(result,
                          [success |-> TRUE, branch_name |-> sess.branch_name,
                           pr_url |-> sess.pr_url, changes_committed |-> TRUE,
                           session_analysis |->
                               analyze_session_output(sess.returncode, "stderr"),
                           end_time |-> "set"]),
                   "success",
                   Details("str", "empty",
                           IF sess.pr_url = Null THEN Null ELSE "url", Absent),
                   "returned")
    /\ sess' = UseBranch("notify_success")
    /\ UNCHANGED <<cfg, args, hist, conf, direct, current_repo_path, tree, calls, cli>>

\* Positions inside run_session.
SessionPcs ==
    { "parse", "get_issue", "get_repository", "setup", "clone", "create_branch",
      "build_prompt", "notify_started", "run_assistant", "analyze",
      "check_changes", "git_add", "commit", "push", "create_pr", "add_comment",
      "success" }

\* The user interrupts the command while the session runs: KeyboardInterrupt
\* is no Exception, so it leaves run_session.  An interrupted clone may leave
\* a partial directory.
Interrupt ==
    /\ pc \in SessionPcs
    /\ escaped' = "KeyboardInterrupt"
    /\ pc' = "escaped"
    /\ \E partial \in BOOLEAN :
         tree' = IF pc = "clone" /\ partial
                   THEN [tree EXCEPT !.exists = TRUE]
                   ELSE tree
    /\ UNCHANGED <<cfg, args, hist, conf, direct, sess, current_repo_path, result, notifs, calls,
                   raised, cli>>

\* cli.run, lines 144-150: exit code from the returned result.
CliResult ==
    /\ pc = "returned"
    /\ cli' = [cli EXCEPT !.exit_code = IF result["success"] THEN 0 ELSE 1]
    /\ pc' = "cleanup"
    /\ UNCHANGED <<cfg, args, hist, conf, direct, sess, current_repo_path, tree, result, notifs,
                   calls, raised, escaped>>

\* cli.run, lines 152-158: KeyboardInterrupt or an unexpected exception.
CliExcept ==
    /\ pc = "escaped"
    /\ cli' = [cli EXCEPT !.exit_code = 1]
    /\ pc' = "cleanup"
    /\ UNCHANGED <<cfg, args, hist, conf, direct, sess, current_repo_path, tree, result, notifs,
                   calls, raised, escaped>>

\* cleanup: the exception that leaves it (Null when it returns), given the
\* outcomes of shutil.rmtree and of github_client.close().  The rmtree call
\* is inside try/except Exception (lines 266-270); the close() call
\* (line 275) is not.
CleanupError(rm, cl) ==
    IF cl = "fail" THEN "Exception: close" ELSE Null

\* cli.run, lines 159-160, and orchestrator.cleanup: remove the working tree
\* if the path is set and exists (a failure is logged), then close the
\* client (a failure propagates out of the finally block).
Cleanup ==
    /\ pc = "cleanup"
    /\ \E rm \in {"ok", "fail"}, cl \in {"ok", "fail"} :
         LET remove == ShouldRemove(current_repo_path, tree.exists)
         IN  /\ tree' = [tree EXCEPT !.exists =
                           IF remove /\ rm = "ok" THEN FALSE ELSE tree.exists]
             /\ cli' = [ exit_code |-> IF CleanupError(rm, cl) # Null
                                         THEN 1 ELSE cli.exit_code,
                         cleanup_ran |-> TRUE,
                         rmtree |-> IF remove THEN rm ELSE "not_tried",
                         close |-> cl,
                         cleanup_exc |-> CleanupError(rm, cl) ]
    /\ pc' = "exited"
    /\ UNCHANGED <<cfg, args, hist, conf, direct, sess, current_repo_path, result, notifs, calls,
                   raised, escaped>>

Next ==
    \/ ParseIssueUrl
    \/ GetIssue
    \/ GetRepository
    \/ SetupRepo
    \/ CloneRepository
    \/ CreateBranch
    \/ BuildPrompt
    \/ NotifyStarted
    \/ RunAssistant
    \/ AnalyzeSession
    \/ CheckChanges
    \/ GitAdd
    \/ Commit
    \/ Push
    \/ CreatePullRequest
    \/ AddComment
    \/ Succeed
    \/ Interrupt
    \/ CliResult
    \/ CliExcept
    \/ Cleanup

Spec == Init /\ [][Next]_vars

\* A library caller uses the NotificationManager directly.

\* The largest number of direct notify_session_status calls.
MaxApiCalls == 2

\* The statuses of the calls.
Statuses == {"started", "success", "error"}

\* The details dicts of the calls: as run_session builds them, empty, with
\* everything set, with a null summary, with a non-string change entry.
ApiDetails ==
    { Details("str", "empty", Null, Absent),
      Details(Absent, Absent, Absent, Absent),
      Details("str", "strs", "url", "strs"),
      Details(Null, Absent, Absent, Absent),
      Details("str", "ints", Absent, Absent) }

\* A NotificationManager constructed from a configuration, no session.
InitApi ==
    /\ cfg \in { c \in Configs : /\ c.claude_timeout = NoAttr
                                 /\ c.max_session_time = DefaultMaxSessionTime
                                 /\ c.auto_create_pr }
    /\ args = [ issue_url |-> <<"octo", "repo", "issues", "42">>,
                branch_name |-> Null, create_pr |-> TRUE, draft_pr |-> FALSE,
                session_start |-> 1 ]
    /\ pc = "api"
    /\ sess = FreshLocals
    /\ current_repo_path = <<>>
    /\ tree = [exists |-> FALSE, is_dirty |-> FALSE, untracked |-> FALSE]
    /\ result = [success |-> FALSE]
    /\ notifs = <<>>
    /\ calls = <<>>
    /\ raised = Null
    /\ escaped = Null
    /\ cli = [ exit_code |-> 0, cleanup_ran |-> FALSE, rmtree |-> "not_tried",
               close |-> "not_called", cleanup_exc |-> Null ]
    /\ hist = [runs |-> 1, assigned |-> <<>>, orphans |-> {}]
    /\ conf = <<>>
    /\ direct = <<>>

\* One direct call of notify_session_status.
NotifyCall ==
    /\ pc = "api"
    /\ Len(notifs) < MaxApiCalls
    /\ \E status \in Statuses, details \in ApiDetails, d \in Deliveries :
         notifs' = Append(notifs, notify_session_status(cfg, status, details, d))
    /\ UNCHANGED <<cfg, args, hist, conf, direct, pc, sess, current_repo_path, tree, result, calls,
                   raised, escaped, cli>>

\* The run command, or direct use of the notifier.
NextApi ==
    \/ Next
    \/ NotifyCall

SpecApi == (Init \/ InitApi) /\ [][NextApi]_vars

\* A library caller runs several sessions, one after another, on a single
\* orchestrator and calls cleanup() at the end.

\* The largest number of run_session calls on the orchestrator.
MaxSessions == 2

\* The latest start time, in whole seconds (int(session_start.timestamp())).
MaxClock == 2

\* The issues of the sessions: two repositories of the same name under
\* different owners, and a repository of another name.
SeqUrls ==
    { <<"octo", "repo", "issues", "42">>,
      <<"acme", "repo", "issues", "7">>,
      <<"octo", "tools", "issues", "42">> }

\* An orchestrator without notification channels; the first run_session
\* call has been entered.
InitSeq ==
    /\ cfg \in { c \in Configs : /\ c.max_session_time = DefaultMaxSessionTime
                                 /\ c.auto_create_pr
                                 /\ ~c.discord_enabled
                                 /\ ~c.email_enabled
                                 /\ c.webhook_url = Null }
    /\ args \in [ issue_url : SeqUrls, branch_name : {Null},
                   create_pr : {TRUE}, draft_pr : {FALSE},
                   session_start : {1} ]
    /\ pc = "parse"
    /\ sess = FreshLocals
    /\ current_repo_path = <<>>
    /\ tree = [exists |-> FALSE, is_dirty |-> FALSE, untracked |-> FALSE]
    /\ result = [ success |-> FALSE, issue_url |-> args.issue_url,
                  start_time |-> args.session_start,
                  instruction |-> Instruction ]
    /\ notifs = <<>>
    /\ calls = <<>>
    /\ raised = Null
    /\ escaped = Null
    /\ cli = [ exit_code |-> 0, cleanup_ran |-> FALSE, rmtree |-> "not_tried",
               close |-> "not_called", cleanup_exc |-> Null ]
    /\ hist = [runs |-> 1, assigned |-> <<>>, orphans |-> {}]
    /\ conf = <<>>
    /\ direct = <<>>

\* run_session returned and the caller calls it again (orchestrator.py
\* lines 37-43): a new start time, not earlier than the last, fresh locals
\* and a fresh result dict.  The orchestrator keeps current_repo_path, and
\* nothing on disk changes.  The logs of calls and notifications restart
\* with the session.
NextSession ==
    /\ pc = "returned"
    /\ hist.runs < MaxSessions
    /\ \E url \in SeqUrls, ts \in {args.session_start, args.session_start + 1} :
         /\ ts <= MaxClock
         /\ args' = [args EXCEPT !.issue_url = url, !.session_start = ts]
         /\ result' = [ success |-> FALSE, issue_url |-> url,
                        start_time |-> ts, instruction |-> Instruction ]
    /\ hist' = [hist EXCEPT !.runs = @ + 1]
    /\ pc' = "parse"
    /\ sess' = FreshLocals
    /\ notifs' = <<>>
    /\ calls' = <<>>
    /\ raised' = Null
    /\ UNCHANGED <<cfg, conf, direct, current_repo_path, tree, escaped, cli>>

\* Sessions in sequence on one orchestrator, then the cleanup.
NextSeq ==
    \/ Next
    \/ NextSession

SpecSeq == InitSeq /\ [][NextSeq]_vars

\* The CLI loads the configuration before any command runs.

\* The command line was given a --config argument, in an environment.
InitConfig ==
    /\ conf \in [file : Files, env : Envs, loaded : {<<>>}]
    /\ pc = "load"
    /\ cfg \in { c \in Configs : /\ c.claude_timeout = NoAttr
                                 /\ c.max_session_time = DefaultMaxSessionTime
                                 /\ c.auto_create_pr
                                 /\ ~c.discord_enabled
                                 /\ ~c.email_enabled
                                 /\ c.webhook_url = Null }
    /\ args = [ issue_url |-> <<"octo", "repo", "issues", "42">>,
                branch_name |-> Null, create_pr |-> TRUE, draft_pr |-> FALSE,
                session_start |-> 1 ]
    /\ sess = FreshLocals
    /\ current_repo_path = <<>>
    /\ tree = [exists |-> FALSE, is_dirty |-> FALSE, untracked |-> FALSE]
    /\ result = [success |-> FALSE]
    /\ notifs = <<>>
    /\ calls = <<>>
    /\ raised = Null
    /\ escaped = Null
    /\ cli = [ exit_code |-> 0, cleanup_ran |-> FALSE, rmtree |-> "not_tried",
               close |-> "not_called", cleanup_exc |-> Null ]
    /\ hist = [runs |-> 0, assigned |-> <<>>, orphans |-> {}]
    /\ direct = <<>>

\* cli, lines 60-75: load the configuration, set up logging, keep the Config
\* for the command; any exception is reported and the process exits with
\* code 1 before a command (and with it an orchestrator) exists.
CliLoadConfig ==
    /\ pc = "load"
    /\ \E logging_ok \in BOOLEAN :
         LET r == load_from_file(conf.file, conf.env)
         IN  /\ conf' = [conf EXCEPT !.loaded = <<r>>]
             /\ IF r.error = Null /\ logging_ok
                  THEN /\ pc' = "loaded"
                       /\ cli' = cli
                  ELSE /\ pc' = "exited"
                       /\ cli' = [cli EXCEPT !.exit_code = 1]
    /\ UNCHANGED <<cfg, args, sess, current_repo_path, tree, result, notifs,
                   calls, raised, escaped, hist, direct>>

NextConfig == CliLoadConfig

SpecConfig == InitConfig /\ [][NextConfig]_vars

\* The `analyze` command of the CLI.

\* The longest URL path, in segments.
MaxSegments == 5

\* The segments URL paths are made of.
Segments == {"octo", "repo", "issues", "42", "abc"}

\* URL paths, as urlparse(url).path.strip('/').split('/') gives them.
ParseUrls == UNION { [1..n -> Segments] : n \in 1..MaxSegments }

\* analyze_issue, lines 246-247: the gateway calls after the URL was parsed
\* (mutant: the repository is cloned as well).
AnalyzeStepsWithClone == <<"get_issue", "get_repository", "clone">>

\* analyze_issue, lines 246-247: the gateway calls after the URL was parsed.
AnalyzeSteps == <<"get_issue", "get_repository">>

\* cli.analyze, line 236: the orchestrator was constructed for an issue URL.
InitAnalyze ==
    /\ cfg \in { c \in Configs : /\ c.claude_timeout = NoAttr
                                 /\ c.max_session_time = DefaultMaxSessionTime
                                 /\ c.auto_create_pr
                                 /\ ~c.discord_enabled
                                 /\ ~c.email_enabled
                                 /\ c.webhook_url = Null }
    /\ args \in [ issue_url : ParseUrls, branch_name : {Null},
                   create_pr : {FALSE}, draft_pr : {FALSE},
                   session_start : {1} ]
    /\ pc = "analyze_parse"
    /\ sess = FreshLocals
    /\ current_repo_path = <<>>
    /\ tree = [exists |-> FALSE, is_dirty |-> FALSE, untracked |-> FALSE]
    /\ result = [success |-> FALSE]
    /\ notifs = <<>>
    /\ calls = <<>>
    /\ raised = Null
    /\ escaped = Null
    /\ cli = [ exit_code |-> 0, cleanup_ran |-> FALSE, rmtree |-> "not_tried",
               close |-> "not_called", cleanup_exc |-> Null ]
    /\ hist = [runs |-> 0, assigned |-> <<>>, orphans |-> {}]
    /\ conf = <<>>
    /\ direct = <<>>

\* cli.analyze, lines 250-252: an exception of analyze_issue is printed and
\* the command exits with code 1; the finally block follows.
AnalyzeFails(msg) ==
    /\ raised' = msg
    /\ cli' = [cli EXCEPT !.exit_code = 1]
    /\ pc' = "cleanup"

\* analyze_issue, line 245: parse the issue URL.
AnalyzeParse ==
    /\ pc = "analyze_parse"
    /\ IF ParseError(args.issue_url) = Null
         THEN /\ sess' = Update(sess, parse_issue_url(args.issue_url))
              /\ pc' = "analyze_fetch"
              /\ UNCHANGED <<raised, cli>>
         ELSE /\ AnalyzeFails(ParseError(args.issue_url))
              /\ UNCHANGED sess
    /\ UNCHANGED <<cfg, args, hist, conf, direct, current_repo_path, tree, result,
                   notifs, calls, escaped>>

\* analyze_issue, lines 246-247: the next gateway call (GET,
\* raise_for_status).
AnalyzeFetch ==
    /\ pc = "analyze_fetch"
    /\ Len(calls) < Len(AnalyzeSteps)
    /\ \E status_ok \in BOOLEAN :
         /\ calls' = Append(calls, Call(AnalyzeSteps[Len(calls) + 1], status_ok))
         /\ IF FetchRaises(status_ok)
              THEN AnalyzeFails("HTTPStatusError: analyze")
              ELSE /\ pc' = IF Len(calls') = Len(AnalyzeSteps)
                              THEN "analyze_report" ELSE "analyze_fetch"
                   /\ UNCHANGED <<raised, cli>>
    /\ UNCHANGED <<cfg, args, hist, conf, direct, sess, current_repo_path, tree,
                   result, notifs, escaped>>

\* analyze_issue, lines 249-258, and cli.analyze, lines 241-248: the summary
\* is built from the two responses and printed.
AnalyzeReport ==
    /\ pc = "analyze_report"
    /\ \E body \in {Null, "text"} :
         result' = [ issue_number |-> sess.issue_number,
                     description |-> body,
                     repository |-> <<sess.owner, sess.repo>> ]
    /\ pc' = "cleanup"
    /\ UNCHANGED <<cfg, args, hist, conf, direct, sess, current_repo_path, tree,
                   notifs, calls, raised, escaped, cli>>

\* The analyze command, with the cleanup of its finally block.
NextAnalyze ==
    \/ AnalyzeParse
    \/ AnalyzeFetch
    \/ AnalyzeReport
    \/ Cleanup

SpecAnalyze == InitAnalyze /\ [][NextAnalyze]_vars

\* A library caller builds prompts directly.

\* The largest number of create_instruction_prompt calls on one input.
MaxPromptCalls == 2

\* A dict with the given keys, taking its values from vals.
DictOf(keys, vals) == [k \in keys |-> vals[k]]

\* Issue dicts: number and state always, title and body missing, null or
\* set; and the empty dict.
IssueDicts ==
    { DictOf({"number", "state"} \cup tk \cup bk,
             [number |-> "42", state |-> "open", title |-> t, body |-> b]) :
        tk \in {{}, {"title"}}, bk \in {{}, {"body"}},
        t \in {Null, "Crash on start"}, b \in {Null, "It crashes."} }
    \cup {DictOf({}, <<>>)}

\* Repository dicts: description and language null or set, default_branch
\* missing or set; and the empty dict.
RepoDicts ==
    { DictOf({"full_name", "description", "language"} \cup bk,
             [full_name |-> "octo/repo", description |-> d, language |-> l,
              default_branch |-> "develop"]) :
        bk \in {{}, {"default_branch"}},
        d \in {Null, "A repository"}, l \in {Null, "Python"} }
    \cup {DictOf({}, <<>>)}

\* The inputs of a direct call.
PromptInputs ==
    [ instruction : {Instruction, ""},
      issue_data : {NoContext} \cup {<<d>> : d \in IssueDicts},
      repo_data : {NoContext} \cup {<<d>> : d \in RepoDicts} ]

\* A ClaudeSession and the arguments it will be called with.
InitPrompt ==
    /\ direct \in [args : PromptInputs, rets : {<<>>}]
    /\ pc = "prompt"
    /\ cfg \in { c \in Configs : /\ c.claude_timeout = NoAttr
                                 /\ c.max_session_time = DefaultMaxSessionTime
                                 /\ c.auto_create_pr
                                 /\ ~c.discord_enabled
                                 /\ ~c.email_enabled
                                 /\ c.webhook_url = Null }
    /\ args = [ issue_url |-> <<"octo", "repo", "issues", "42">>,
                branch_name |-> Null, create_pr |-> TRUE, draft_pr |-> FALSE,
                session_start |-> 1 ]
    /\ sess = FreshLocals
    /\ current_repo_path = <<>>
    /\ tree = [exists |-> FALSE, is_dirty |-> FALSE, untracked |-> FALSE]
    /\ result = [success |-> FALSE]
    /\ notifs = <<>>
    /\ calls = <<>>
    /\ raised = Null
    /\ escaped = Null
    /\ cli = [ exit_code |-> 0, cleanup_ran |-> FALSE, rmtree |-> "not_tried",
               close |-> "not_called", cleanup_exc |-> Null ]
    /\ hist = [runs |-> 0, assigned |-> <<>>, orphans |-> {}]
    /\ conf = <<>>

\* One call of create_instruction_prompt; the method reads nothing but its
\* arguments.
PromptCall ==
    /\ pc = "prompt"
    /\ Len(direct.rets) < MaxPromptCalls
    /\ direct' = [direct EXCEPT !.rets =
                    Append(@, create_instruction_prompt(direct.args.instruction,
                                                        direct.args.issue_data,
                                                        direct.args.repo_data))]
    /\ UNCHANGED <<cfg, args, pc, sess, current_repo_path, tree, result,
                   notifs, calls, raised, escaped, cli, hist, conf>>

NextPrompt == PromptCall

SpecPrompt == InitPrompt /\ [][NextPrompt]_vars

\* ------------------------------------------------------------ observations

\* run_session has returned its result record to the caller.
Returned == pc \in {"returned", "cleanup", "exited"} /\ escaped = Null

\* The external call op was made (whatever its outcome).
Called(op) == \E i \in DOMAIN calls : calls[i].op = op

\* The external call op was made and succeeded.
CalledOk(op) == \E i \in DOMAIN calls : calls[i] = Call(op, TRUE)

\* The external call op was made and failed.
CalledFailed(op) == \E i \in DOMAIN calls : calls[i] = Call(op, FALSE)

\* A notification with this status was sent.
Notified(status) == \E i \in DOMAIN notifs : notifs[i].status = status

\* The status of the last notification sent.
LastStatus == IF notifs = <<>> THEN Null ELSE notifs[Len(notifs)].status

\* The steps after the change check.
ChainOps ==
    {"git_add", "commit", "push", "create_pull_request", "add_comment_to_issue"}

\* None of the stage / commit / push / PR / comment steps was attempted.
NoChainCall == \A i \in DOMAIN calls : calls[i].op \notin ChainOps

\* A main-line step has failed: a call that raised (a failed checkout of the
\* default branch inside clone_repository is swallowed there), a malformed
\* URL, a prompt that cannot be built, or the failed lookup of the budget.
StepFailed ==
    \/ \E i \in DOMAIN calls : ~calls[i].ok /\ calls[i].op # "checkout_default"
    \/ pc # "parse" /\ ParseError(args.issue_url) # Null
    \/ pc \notin {"build_prompt"} /\ CalledOk("create_branch")
          /\ sess.issue_body = Null
    \/ Notified("started") /\ pc # "run_assistant"
          /\ AssistantBudget(cfg) = NoAttr

\* ------------------------------------------------------------------ claims

\* C1: run_session never lets an Exception escape (only the user's
\* interruption, which is no Exception, leaves it), and once any main-line
\* step has failed (raised; an assistant that exits non-zero has not) it
\* has returned a record with success = false and error = the failure's
\* message, after an "error" notification.
C1_ErrorBoundary ==
    /\ escaped \in {Null, "KeyboardInterrupt"}
    /\ (StepFailed /\ escaped = Null) =>
          /\ Returned
          /\ raised # Null
          /\ result["success"] = FALSE
          /\ "error" \in DOMAIN result
          /\ result["error"] = raised
          /\ LastStatus = "error"

\* C1 witness: a late step (the push) failed and the session has returned.
C1_Witness ==
    /\ Returned
    /\ CalledFailed("push")
    /\ result["success"] = FALSE
    /\ LastStatus = "error"

\* C2 as stated: when the run command exits, the working tree no longer
\* exists and the gateway's HTTP client is closed.
C2_Original ==
    pc = "exited" => ~tree.exists /\ cli.close = "ok"

\* C2 amended: on every exit path cleanup() has run when the command exits:
\* close() has been called on the gateway's client, and the working tree no
\* longer exists unless its removal was attempted and failed.
C2_CleanupOnEveryExit ==
    pc = "exited" =>
        /\ cli.cleanup_ran
        /\ cli.close # "not_called"
        /\ tree.exists => cli.rmtree = "fail"

\* C2 witness: the assistant timed out, and the command exited with the
\* working tree removed and the client closed.
C2_Witness ==
    /\ pc = "exited"
    /\ sess.assistant = "timeout"
    /\ cli.rmtree = "ok"
    /\ ~tree.exists
    /\ cli.close = "ok"

\* C3: create_pull_request is called only if the assistant exited with code
\* zero and left modified or untracked files in the working tree.
C3_PROnlyAfterSuccessAndChanges ==
    Called("create_pull_request") =>
        /\ sess.assistant = "exit0"
        /\ sess.left_modified \/ sess.left_untracked

\* C3 witness: a pull request was requested from the API.
C3_Witness ==
    /\ Called("create_pull_request")
    /\ sess.left_untracked
    /\ ~sess.left_modified

\* The assistant exited zero and left changes in the tree.
AssistantMadeChanges ==
    /\ sess.assistant = "exit0"
    /\ sess.left_modified \/ sess.left_untracked

\* C4: the returned result has success = true and a non-null pr_url iff the
\* assistant exited zero, the tree had changes, create_pr and auto_create_pr
\* are both true and stage, commit, push, PR creation and issue comment all
\* succeeded; with the assistant successful, changes staged, committed and
\* pushed but create_pr or auto_create_pr false, the result has success =
\* true, pr_url = null, changes_committed = true and no PR call was made.
C4_SuccessWithPR ==
    Returned =>
        /\ (/\ result["success"]
            /\ "pr_url" \in DOMAIN result
            /\ result["pr_url"] # Null)
           <=>
           (/\ AssistantMadeChanges
            /\ args.create_pr
            /\ cfg.auto_create_pr
            /\ \A op \in ChainOps : CalledOk(op))
        /\ (/\ AssistantMadeChanges
            /\ ~(args.create_pr /\ cfg.auto_create_pr)
            /\ CalledOk("git_add") /\ CalledOk("commit") /\ CalledOk("push"))
           =>
           (/\ result["success"]
            /\ "pr_url" \in DOMAIN result
            /\ result["pr_url"] = Null
            /\ result["changes_committed"] = TRUE
            /\ ~Called("create_pull_request")
            /\ ~Called("add_comment_to_issue"))

\* C4 witness: a session returned successfully with the PR's URL.
C4_Witness ==
    /\ Returned
    /\ result["success"]
    /\ "pr_url" \in DOMAIN result
    /\ result["pr_url"] = "https://github/pull/1"

\* The NO_CHANGES outcome.
NoChangesOutcome ==
    /\ result["success"]
    /\ "changes_committed" \in DOMAIN result
    /\ result["changes_committed"] = FALSE
    /\ LastStatus = "completed"
    /\ NoChainCall

\* C5: a returned session is in the NO_CHANGES outcome (success = true,
\* changes_committed = false, "completed" sent, no commit / push / PR) iff
\* the assistant exited zero and left no modified, staged or untracked file.
C5_NoChangesIff ==
    Returned =>
        (NoChangesOutcome <=>
            /\ sess.assistant = "exit0"
            /\ ~sess.left_modified
            /\ ~sess.left_untracked)

\* C5 witness: a session returned in the NO_CHANGES outcome.
C5_Witness ==
    /\ Returned
    /\ NoChangesOutcome
    /\ CalledOk("run_assistant")

\* C6: once the assistant has exited with a non-zero code no stage, commit,
\* push, PR or comment step is made, and the session returns success =
\* false with the error detail after a "failed" (never an "error")
\* notification.
C6_AssistantFailed ==
    sess.assistant \in {"exit1", "exit2"} =>
        /\ NoChainCall
        /\ Returned =>
              /\ result["success"] = FALSE
              /\ "error" \in DOMAIN result
              /\ result["error"] = "Claude Code session failed"
              /\ "details" \in DOMAIN result
              /\ result["details"].return_code = sess.returncode
              /\ LastStatus = "failed"
              /\ ~Notified("error")

\* C6 witness: the assistant exited 2 leaving changes, and the session
\* returned.
C6_Witness ==
    /\ Returned
    /\ sess.assistant = "exit2"
    /\ sess.left_modified
    /\ LastStatus = "failed"

C8_AssistantGetsSessionBudget ==
    (/\ Notified("started")
     /\ pc # "run_assistant"
     /\ escaped = Null)
    =>
    (/\ Called("run_assistant")
     /\ sess.budget = cfg.max_session_time)

\* C9: if posting the issue comment failed after the pull request was
\* opened, the session returns success = false with the error set, after an
\* "error" and no "success" notification, although the branch was pushed
\* and the pull request exists.
C9_CommentFailureAborts ==
    (Returned /\ CalledFailed("add_comment_to_issue")) =>
        /\ result["success"] = FALSE
        /\ "error" \in DOMAIN result
        /\ result["error"] = "HTTPStatusError: add_comment_to_issue"
        /\ LastStatus = "error"
        /\ ~Notified("success")
        /\ CalledOk("push")
        /\ CalledOk("create_pull_request")

\* C9 witness: the comment failed after the PR was opened.
C9_Witness ==
    /\ Returned
    /\ CalledFailed("add_comment_to_issue")
    /\ CalledOk("create_pull_request")

\* The details hold what the renderers expect: a string summary (if any)
\* and strings in the changes list (if any).
WellFormed(details) ==
    /\ details.summary \in {Absent, "str"}
    /\ details.changes \in {Absent, "empty", "strs"}

\* The exceptions a notify_session_status call could raise.
NotifyErrors ==
    { WebhookError, EmbedError(Details("str", "ints", Absent, Absent)),
      EmailError(Details(Null, Absent, Absent, Absent)) }

C11_DeliveryOnEveryEnabledChannel ==
    \A i \in DOMAIN notifs :
        notifs[i].exc = Null =>
            /\ cfg.discord_enabled => notifs[i].discord \in {"sent", "failed"}
            /\ cfg.email_enabled => notifs[i].smtp_sends = 1

\* C12: with both channels disabled, no notify_session_status call, in any
\* sequence of calls and for any status and details, renders or posts to the
\* chat channel, renders or sends an email, or raises.
C12_DisabledNotifierIsSilent ==
    (~cfg.discord_enabled /\ ~cfg.email_enabled) =>
        \A i \in DOMAIN notifs :
            /\ notifs[i].discord = "disabled"
            /\ notifs[i].email = "disabled"
            /\ notifs[i].smtp_sends = 0
            /\ notifs[i].exc = Null

\* C12 witness: a notifier with both channels disabled was called twice,
\* once with details neither renderer could have rendered.
C12_Witness ==
    /\ pc = "api"
    /\ ~cfg.discord_enabled
    /\ ~cfg.email_enabled
    /\ Len(notifs) = 2
    /\ \E i \in DOMAIN notifs : notifs[i].details.changes = "ints"
    /\ \E i \in DOMAIN notifs : notifs[i].details.summary = Null

\* The branch name a session has to use: the caller's when one was
\* supplied, otherwise the one generated from the issue number and the
\* start time.
ExpectedBranch ==
    IF args.branch_name = Null
        THEN <<"claudeforge-issue", sess.issue_number, args.session_start>>
        ELSE <<args.branch_name>>

\* The purposes run_session hands the branch name on for.
BranchUses ==
    {"create_branch", "notify_started", "push", "pr_head", "notify_success"}

\* C15: once chosen, the branch name of a session is the caller's (when
\* supplied) or the generated one and stays the same: branch creation, the
\* push, the PR head, the notifications and the result's branch_name all
\* carry that one name.
C15_BranchNameStable ==
    /\ sess.branch_name # <<>> => sess.branch_name = ExpectedBranch
    /\ \A u \in sess.used : u[1] \in BranchUses /\ u[2] = ExpectedBranch
    /\ "branch_name" \in DOMAIN result =>
           result["branch_name"] = ExpectedBranch

\* C15 witness: a session with a caller-supplied branch name succeeded with
\* a pull request, having used the name for every purpose.
C15_Witness ==
    /\ Returned
    /\ result["success"]
    /\ args.branch_name = "feature-x"
    /\ {u[1] : u \in sess.used} = BranchUses
    /\ result["branch_name"] = <<"feature-x">>

C13_DistinctWorkingTrees ==
    \A i, j \in DOMAIN hist.assigned :
        i # j => hist.assigned[i] # hist.assigned[j]

\* C14: after a sequence of run_session calls on one orchestrator and the
\* cleanup() that follows, no working tree of any of the sessions is left
\* on disk (a removal that was tried and failed aside).
C14_NoTreeLeftAfterCleanup ==
    (pc = "exited" /\ cli.rmtree # "fail") =>
        /\ ~tree.exists
        /\ hist.orphans = {}

\* load_from_file has run.
Loaded == conf # <<>> /\ conf.loaded # <<>>

\* load_from_file returned a Config.
LoadedOk == Loaded /\ conf.loaded[1].error = Null

\* The value the loaded Config holds for key k.
Resolved(k) == conf.loaded[1].settings[1][k]

\* The configuration file supplies key k.
FileSupplies(k) ==
    /\ conf.file.exists
    /\ conf.file.data.kind = "dict"
    /\ LET items == conf.file.data.items
       IN  CASE k \in {"api_key", "model"} ->
                  k \in DOMAIN Section(items, "claude")
             [] k = "token" -> k \in DOMAIN Section(items, "github")
             [] OTHER ->
                  k \in DOMAIN Section(Section(items, "notifications"), "discord")

\* The value of the environment variable of key k (Null when unset).
EnvOf(k) == conf.env[EnvVar[k]]

\* C17: in every loaded configuration, a key supplied by the file and by
\* the environment holds the environment value, and a key supplied by the
\* file whose environment variable is unset holds the file value.
C17_EnvOverridesFile ==
    LoadedOk =>
        \A k \in ConfigKeys :
            FileSupplies(k) =>
                /\ EnvOf(k) # Null => Resolved(k) = EnvOf(k)
                /\ EnvOf(k) = Null => Resolved(k) = FileValue[k]

\* C17 witness: the file supplies both credentials, the environment only
\* the API key; the Config holds the environment's key and the file's token.
C17_Witness ==
    /\ LoadedOk
    /\ FileSupplies("api_key")
    /\ FileSupplies("token")
    /\ FileSupplies("webhook_url")
    /\ EnvOf("api_key") = EnvValue.ANTHROPIC_API_KEY
    /\ EnvOf("token") = Null
    /\ EnvOf("webhook_url") = Null
    /\ Resolved("api_key") = EnvValue.ANTHROPIC_API_KEY
    /\ Resolved("token") = FileValue["token"]
    /\ Resolved("webhook_url") = FileValue["webhook_url"]

\* The schema default of a key that has one.
SchemaDefault(k) == IF k = "model" THEN DefaultModel ELSE Null

\* C18: without a configuration file, or with a file that omits a section,
\* and with an environment that sets the two credentials and none of the
\* optional variables, load_from_file returns a Config in which every key
\* the file does not supply holds its schema default.
C18_DefaultsWithoutFile ==
    (/\ Loaded
     /\ \/ ~conf.file.exists
        \/ /\ conf.file.data.kind = "dict"
           /\ DOMAIN conf.file.data.items # {"claude", "github", "notifications"}
     /\ EnvOf("api_key") = EnvValue.ANTHROPIC_API_KEY
     /\ EnvOf("token") = EnvValue.GITHUB_TOKEN
     /\ EnvOf("model") = Null
     /\ EnvOf("webhook_url") = Null)
    =>
    (/\ LoadedOk
     /\ \A k \in {"model", "webhook_url"} :
           ~FileSupplies(k) => Resolved(k) = SchemaDefault(k))

\* C19: an environment variable set to the empty string does not replace
\* the value the configuration file supplies for its key.
C19_EmptyEnvKeepsFileValue ==
    LoadedOk =>
        \A k \in ConfigKeys :
            (FileSupplies(k) /\ EnvOf(k) = "") => Resolved(k) = FileValue[k]

\* C20: if the API key, or the GitHub token, is supplied neither by the
\* file nor by the environment, load_from_file raises and returns no
\* Config, and the CLI exits with code 1 without having created a session.
C20_MissingCredentialFails ==
    (/\ Loaded
     /\ \E k \in {"api_key", "token"} : ~FileSupplies(k) /\ EnvOf(k) = Null)
    =>
    (/\ conf.loaded[1].error # Null
     /\ conf.loaded[1].settings = <<>>
     /\ pc = "exited"
     /\ cli.exit_code = 1
     /\ calls = <<>>
     /\ notifs = <<>>
     /\ current_repo_path = <<>>)

\* C20 witness: the file supplies the API key and nothing supplies the
\* GitHub token; the load failed with a validation error.
C20_Witness ==
    /\ Loaded
    /\ FileSupplies("api_key")
    /\ ~FileSupplies("token")
    /\ EnvOf("token") = Null
    /\ conf.loaded[1].error = "ValidationError"
    /\ pc = "exited"

\* The analyses of the assistant run that the result record carries.
AnalysisRecords ==
    {result[k] : k \in {"details", "session_analysis"} \cap DOMAIN result}

\* C23: every analysis of an assistant run reports success iff the exit
\* code is zero; on success its errors list is empty and its summary is the
\* fixed success string; on failure its summary holds the exit code and its
\* errors list is exactly the captured standard error.
C23_AnalysisReflectsExitCode ==
    \A a \in AnalysisRecords :
        /\ a.return_code = sess.returncode
        /\ a.success <=> sess.returncode = 0
        /\ a.success =>
              /\ a.errors = <<>>
              /\ Len(a.summary) = 1
              /\ a.summary[1] = "Claude Code session completed successfully"
        /\ ~a.success =>
              /\ a.errors = <<"stderr">>
              /\ Len(a.summary) = 2
              /\ a.summary[2] = sess.returncode

\* C23 witness: a session returned the analysis of an assistant run that
\* exited with code 2.
C23_Witness ==
    /\ Returned
    /\ sess.returncode = 2
    /\ "details" \in DOMAIN result
    /\ ~result["details"].success
    /\ result["details"].errors = <<"stderr">>

\* C25: a result record returned by run_session holds the "error" key
\* exactly when its success flag is false.
C25_ErrorIffUnsuccessful ==
    Returned => (result["success"] = FALSE <=> "error" \in DOMAIN result)

\* C25 witness: a session returned the record of a failed assistant run,
\* with the error string and the analysis.
C25_Witness ==
    /\ Returned
    /\ result["success"] = FALSE
    /\ "error" \in DOMAIN result
    /\ result["error"] = "Claude Code session failed"
    /\ "details" \in DOMAIN result

\* C28: the prompt is built whatever the issue holds, so a session whose
\* issue has a null body and whose branch was created goes on to the
\* "started" notification: once it has returned, "started" was sent.
C28_NullBodySessionProceeds ==
    (/\ Returned
     /\ sess.issue_body = Null
     /\ CalledOk("create_branch"))
    => Notified("started")

\* The statuses that end a session.
TerminalStatuses == {"failed", "success", "completed", "error"}

\* C30: "started" is sent at most once in a session and before anything
\* else; a run_session call that has returned has sent exactly one terminal
\* notification (failed, success, completed or error), as its last one; and
\* a session that failed before its branch was created has sent "error"
\* and no "started".
C30_OneTerminalNotification ==
    /\ \A i \in DOMAIN notifs : notifs[i].status = "started" => i = 1
    /\ Returned =>
          /\ Len(notifs) \in {1, 2}
          /\ notifs[Len(notifs)].status \in TerminalStatuses
          /\ \A i \in 1..(Len(notifs) - 1) : notifs[i].status = "started"
    /\ (Returned /\ ~CalledOk("create_branch")) =>
          /\ Len(notifs) = 1
          /\ notifs[1].status = "error"

\* C30 witness: a session returned after "started" and "completed".
C30_Witness ==
    /\ Returned
    /\ Len(notifs) = 2
    /\ notifs[1].status = "started"
    /\ notifs[2].status = "completed"

\* The external steps of a session, in the order of run_session.
ChainOrder ==
    << "get_issue", "get_repository", "mkdir", "clone", "checkout_default",
       "create_branch", "run_assistant", "git_add", "commit", "push",
       "create_pull_request", "add_comment_to_issue" >>

\* The place of a step in that order.
Pos(op) == CHOOSE i \in DOMAIN ChainOrder : ChainOrder[i] = op

\* C27: the external steps of a session happen in the order issue fetch,
\* repository fetch, clone, branch creation, "started", assistant run,
\* stage and commit, push, PR creation, issue comment, "success", each at
\* most once; a step is made only if every earlier step succeeded (the
\* checkout of the default branch inside the clone aside, whose failure is
\* only logged).
C27_StepsInOrder ==
    /\ \A i \in DOMAIN calls : \E k \in DOMAIN ChainOrder : ChainOrder[k] = calls[i].op
    /\ \A i, j \in DOMAIN calls :
           i < j => Pos(calls[i].op) < Pos(calls[j].op)
    /\ \A i \in DOMAIN calls :
           i < Len(calls) => (calls[i].ok \/ calls[i].op = "checkout_default")
    /\ Notified("started") =>
           /\ CalledOk("get_issue")
           /\ CalledOk("get_repository")
           /\ CalledOk("clone")
           /\ CalledOk("create_branch")
    /\ Called("run_assistant") => Notified("started")
    /\ Notified("success") =>
           /\ CalledOk("run_assistant")
           /\ CalledOk("git_add")
           /\ CalledOk("commit")
           /\ CalledOk("push")
           /\ \A i \in DOMAIN calls :
                  calls[i].ok \/ calls[i].op = "checkout_default"
    /\ Called("add_comment_to_issue") => CalledOk("create_pull_request")

\* C27 witness: a session went through the whole chain, from the issue
\* fetch to the issue comment and "success".
C27_Witness ==
    /\ Returned
    /\ Notified("success")
    /\ CalledOk("add_comment_to_issue")
    /\ Len(calls) = Len(ChainOrder)

\* C29: a clone whose checkout of the default branch failed still yields
\* the working tree, and the session goes on to create its branch; a
\* session whose branch creation failed returns unsuccessful after "error",
\* with the working-tree path recorded on the orchestrator.
C29_CheckoutFailureTolerated ==
    /\ (CalledOk("clone") /\ CalledFailed("checkout_default")) =>
          /\ current_repo_path = RepoPath(sess.repo, args.session_start)
          /\ pc # "clone"
          /\ Returned => Called("create_branch")
    /\ (Returned /\ CalledFailed("create_branch")) =>
          /\ result["success"] = FALSE
          /\ raised = "GitCommandError: checkout"
          /\ LastStatus = "error"
          /\ ~Notified("started")
          /\ current_repo_path = RepoPath(sess.repo, args.session_start)
          /\ pc = "returned" => tree.exists

\* C29 witness: the checkout of the default branch failed inside the clone,
\* branch creation failed after it, and the session returned.
C29_Witness ==
    /\ pc = "returned"
    /\ CalledOk("clone")
    /\ CalledFailed("checkout_default")
    /\ CalledFailed("create_branch")
    /\ tree.exists

\* C26: cleanup() never raises: whatever fails while the working tree is
\* removed or the HTTP client is closed, no exception leaves cleanup(), and
\* the client is closed even if the removal failed.
C26_CleanupNeverRaises ==
    cli.cleanup_ran =>
        /\ cli.cleanup_exc = Null
        /\ cli.rmtree = "fail" => cli.close # "not_called"

\* The URL path has exactly the shape {owner}/{repo}/issues/{number}.
ExactShape(u) ==
    /\ Len(u) = 4
    /\ u[3] = "issues"
    /\ IsIntString(u[4])

\* The errors parse_issue_url raises.
ParseErrors ==
    { "ValueError: Invalid GitHub issue URL",
      "ValueError: invalid literal for int()" }

\* C21: parse_issue_url returns owner, repository and number for every URL
\* whose path is exactly {owner}/{repo}/issues/{number} with an integer
\* number, and raises its error for every other URL.
C21_ParseExactShape ==
    pc # "analyze_parse" =>
        /\ ExactShape(args.issue_url) =>
              /\ sess.owner = args.issue_url[1]
              /\ sess.repo = args.issue_url[2]
              /\ sess.issue_number = IntValue(args.issue_url[4])
        /\ ~ExactShape(args.issue_url) =>
              /\ raised \in ParseErrors
              /\ calls = <<>>

\* C24: the analyze command makes no external call but the GETs of the
\* issue and of the repository, sends no notification, and leaves the
\* orchestrator's working-tree path unset and the disk untouched.
C24_AnalyzeIsFetchOnly ==
    /\ \A i \in DOMAIN calls : calls[i].op \in {"get_issue", "get_repository"}
    /\ Len(calls) <= 2
    /\ notifs = <<>>
    /\ current_repo_path = <<>>
    /\ ~tree.exists
    /\ hist.assigned = <<>>
    /\ sess.used = {}
    /\ sess.assistant = "not_run"

\* C24 witness: the analyze command fetched the issue and the repository,
\* printed its summary and exited after the cleanup.
C24_Witness ==
    /\ pc = "exited"
    /\ CalledOk("get_issue")
    /\ CalledOk("get_repository")
    /\ "repository" \in DOMAIN result
    /\ cli.exit_code = 0

\* The text t without the n parts that follow its first k parts.
WithoutParts(t, k, n) == SubSeq(t, 1, k) \o SubSeq(t, k + n + 1, Len(t))

====
